---- MODULE Spec2Model ----
(***************************************************************************)
(* Model of the user service of go-clean-architecture: the entity          *)
(* validator (internal/entities/user.go), the SQL repository               *)
(* (internal/repository/user_repository.go) and the use-case orchestrator  *)
(* (internal/usecase/user_usecase.go).                                     *)
(*                                                                         *)
(* Every use-case invocation runs on its own worker.  The storage calls    *)
(* are the only suspension points, so one action of the model is one       *)
(* storage call (one SQL statement, atomic in the store) together with     *)
(* the local code of the use case that runs between that call and the      *)
(* next one.                                                               *)
(*                                                                         *)
(* Strings that the code inspects character by character (emails, store    *)
(* error texts) are sequences of one-character / one-phrase strings.       *)
(***************************************************************************)
EXTENDS Integers, Sequences, FiniteSets, TLC

\* ------------------------------------------------------------------ bounds
NumWorkers == 2
MaxUsers == 2
MaxClock == 1
MaxOps == 2
MaxLen == 6

Workers == 1..NumWorkers
IDs == 1..MaxUsers

\* ------------------------------------------------------------------ inputs
E1 == <<"a", "@", "b", ".", "c">>
E2 == <<"b", "@", "a", ".", "c">>
NoAt == <<"n", "o", "a", "t", ".", "c", "o", "m">>
NoDot == <<"a", "@", "b">>
DotFirst == <<"a", "@", ".", "c", "o", "m">>
DotLast == <<"a", "@", "b", ".">>
Empty == <<>>

Limits == {0, 1}
Offsets == {-1, 1}
PageLimits == -2..4
PageOffsets == -2..3

Names == {"", "n1", "n2"}
NewNames == {"", "n1"}
ChangedNames == {"", "n2"}
Emails == {Empty, E1, E2, NoAt}
ListedEmails == {Empty, NoAt, NoDot, DotFirst, DotLast, E1}
Alphabet == {"a", "@", "."}

RECURSIVE SeqsUpTo(_)
SeqsUpTo(n) ==
    IF n = 0 THEN {<<>>}
    ELSE LET S == SeqsUpTo(n - 1)
         IN S \cup {Append(s, c) : s \in {t \in S : Len(t) = n - 1}, c \in Alphabet}

\* ------------------------------------------------------------------ state
VARIABLES store, nextID, now, ops, pc, req, user, res, calls, port,
          vName, vEmail, vOut, hErr, hStatus

vars == <<store, nextID, now, ops, pc, req, user, res, calls, port,
          vName, vEmail, vOut, hErr, hStatus>>
svars == <<store, nextID, now, ops, pc, req, user, res, calls, port>>
vvars == <<vName, vEmail, vOut, hErr, hStatus>>

uuidNil == 0

NilUser == [ID |-> uuidNil, Name |-> "", Email |-> Empty, CreatedAt |-> 0, UpdatedAt |-> 0]
NilResp == [ID |-> uuidNil, Name |-> "", Email |-> Empty]
\* context.Context, as far as the code looks at it: done (cancelled or past
\* its deadline) or not
Background == "background"
Cancelled == "cancelled"
Contexts == {Background, Cancelled}

NoReq == [op |-> "none", ctx |-> Background, id |-> uuidNil, name |-> "", email |-> Empty,
          limit |-> 0, offset |-> 0]
NoRes == [err |-> "pending", resp |-> NilResp]
\* port[w]: the last Storage Port call of the running operation: whether the
\* store failed in it, the error it returned and, for List, its arguments and
\* the users it returned
NoPort == [failed |-> FALSE, err |-> "none", limit |-> 0, offset |-> 0, users |-> <<>>]

\* ------------------------------------------------------- entities/errors.go
ValidationError == "VALIDATION_ERROR"
NotFoundError == "NOT_FOUND_ERROR"
ConflictError == "CONFLICT_ERROR"
InternalError == "INTERNAL_ERROR"

IsNotFoundError_Always(err) == TRUE

\* a returned error is the Type of the DomainError, "nil" when there is none
IsNotFoundError(err) == err = NotFoundError

\* ------------------------------------------------------- entities/user.go
RECURSIVE ScanEmail(_, _, _, _, _)
ScanEmail(email, i, atCount, dotAfterAt, atIndex) ==
    IF i > Len(email)
    THEN [atCount |-> atCount, dotAfterAt |-> dotAfterAt, atIndex |-> atIndex]
    ELSE LET char == email[i]
             idx == i - 1
             ac == IF char = "@" THEN atCount + 1 ELSE atCount
             ai == IF char = "@" THEN idx ELSE atIndex
             da == dotAfterAt \/ (char = "." /\ idx > ai /\ ai # -1)
         IN ScanEmail(email, i + 1, ac, da, ai)

isValidEmail_NoLen(email) ==
    LET s == ScanEmail(email, 1, 0, FALSE, -1)
    IN s.atCount = 1 /\ s.dotAfterAt /\ s.atIndex > 0 /\ s.atIndex < Len(email) - 1

isValidEmail(email) ==
    IF Len(email) < 5 THEN FALSE
    ELSE LET s == ScanEmail(email, 1, 0, FALSE, -1)
         IN s.atCount = 1 /\ s.dotAfterAt /\ s.atIndex > 0 /\ s.atIndex < Len(email) - 1

validateUserInput_NoName(name, email) ==
    IF email = Empty THEN "ErrInvalidEmail"
    ELSE IF ~isValidEmail(email) THEN "ErrInvalidEmail"
    ELSE "nil"

validateUserInput(name, email) ==
    IF name = "" THEN "ErrInvalidName"
    ELSE IF email = Empty THEN "ErrInvalidEmail"
    ELSE IF ~isValidEmail(email) THEN "ErrInvalidEmail"
    ELSE "nil"

NewUser_TwoClocks(name, email, id, t) ==
    IF validateUserInput(name, email) # "nil"
    THEN [user |-> NilUser, err |-> validateUserInput(name, email)]
    ELSE [user |-> [ID |-> id, Name |-> name, Email |-> email,
                    CreatedAt |-> t, UpdatedAt |-> t + 1],
          err |-> "nil"]

\* NewUser: the entity, or NilUser with the validation error
NewUser(name, email, id, t) ==
    IF validateUserInput(name, email) # "nil"
    THEN [user |-> NilUser, err |-> validateUserInput(name, email)]
    ELSE [user |-> [ID |-> id, Name |-> name, Email |-> email,
                    CreatedAt |-> t, UpdatedAt |-> t],
          err |-> "nil"]

UpdateName_ZeroTime(u, name, t) ==
    IF name = "" THEN [user |-> u, err |-> "ErrInvalidName"]
    ELSE [user |-> [u EXCEPT !.Name = name, !.UpdatedAt = 0], err |-> "nil"]

\* UpdateName / UpdateEmail: the entity after the change, and the error
UpdateName(u, name, t) ==
    IF name = "" THEN [user |-> u, err |-> "ErrInvalidName"]
    ELSE [user |-> [u EXCEPT !.Name = name, !.UpdatedAt = t], err |-> "nil"]

UpdateEmail(u, email, t) ==
    IF email = Empty THEN [user |-> u, err |-> "ErrInvalidEmail"]
    ELSE IF ~isValidEmail(email) THEN [user |-> u, err |-> "ErrInvalidEmail"]
    ELSE [user |-> [u EXCEPT !.Email = email, !.UpdatedAt = t], err |-> "nil"]


\* ------------------------------------------------- the users table (store)
\* error values of database/sql: the error text as a sequence of phrases,
\* <<>> for a nil error
NoErr == <<>>
ErrNoRows == <<"sql: no rows in result set">>
DupKeyText == <<"pq: ", "duplicate key value", " violates ", "unique constraint", " \"users_email_key\"">>
ConnText == <<"driver: bad connection">>

\* the uniqueness constraint of users.email (the table is created by the
\* migrations): another row holds this email
UniqueViolated_Off(st, id, email) == FALSE

UniqueViolated(st, id, email) ==
    \E i \in DOMAIN st : i # id /\ st[i].Email = email

Row(u) ==
    [ID |-> u.ID, Name |-> u.Name, Email |-> u.Email,
     CreatedAt |-> u.CreatedAt, UpdatedAt |-> u.UpdatedAt]

Entity(row) ==
    [ID |-> row.ID, Name |-> row.Name, Email |-> row.Email,
     CreatedAt |-> row.CreatedAt, UpdatedAt |-> row.UpdatedAt]

ExecInsert_Unchecked(st, u, fail) ==
    IF fail THEN [store |-> st, err |-> ConnText]
    ELSE [store |-> (u.ID :> Row(u)) @@ st, err |-> NoErr]

ExecInsert_AppliedOnFail(st, u, fail) ==
    IF u.ID \in DOMAIN st \/ UniqueViolated(st, u.ID, u.Email)
    THEN [store |-> st, err |-> DupKeyText]
    ELSE [store |-> st @@ (u.ID :> Row(u)), err |-> IF fail THEN ConnText ELSE NoErr]

\* INSERT INTO users (id, name, email, created_at, updated_at) VALUES (...)
ExecInsert(st, u, fail) ==
    IF fail THEN [store |-> st, err |-> ConnText]
    ELSE IF u.ID \in DOMAIN st \/ UniqueViolated(st, u.ID, u.Email)
    THEN [store |-> st, err |-> DupKeyText]
    ELSE [store |-> st @@ (u.ID :> Row(u)), err |-> NoErr]

ExecUpdate_Upsert(st, u, fail) ==
    IF fail THEN [store |-> st, err |-> ConnText, rowsAffected |-> 0]
    ELSE IF UniqueViolated(st, u.ID, u.Email)
    THEN [store |-> st, err |-> DupKeyText, rowsAffected |-> 0]
    ELSE [store |-> (u.ID :> Row(u)) @@ st, err |-> NoErr, rowsAffected |-> 1]

ExecUpdate_CreatedAt(st, u, fail) ==
    IF fail THEN [store |-> st, err |-> ConnText, rowsAffected |-> 0]
    ELSE IF u.ID \notin DOMAIN st
    THEN [store |-> st, err |-> NoErr, rowsAffected |-> 0]
    ELSE IF UniqueViolated(st, u.ID, u.Email)
    THEN [store |-> st, err |-> DupKeyText, rowsAffected |-> 0]
    ELSE [store |-> [st EXCEPT ![u.ID] = [@ EXCEPT !.Name = u.Name, !.Email = u.Email,
                                                   !.CreatedAt = u.UpdatedAt,
                                                   !.UpdatedAt = u.UpdatedAt]],
          err |-> NoErr, rowsAffected |-> 1]

\* UPDATE users SET name = $2, email = $3, updated_at = $4 WHERE id = $1
ExecUpdate(st, u, fail) ==
    IF fail THEN [store |-> st, err |-> ConnText, rowsAffected |-> 0]
    ELSE IF u.ID \notin DOMAIN st
    THEN [store |-> st, err |-> NoErr, rowsAffected |-> 0]
    ELSE IF UniqueViolated(st, u.ID, u.Email)
    THEN [store |-> st, err |-> DupKeyText, rowsAffected |-> 0]
    ELSE [store |-> [st EXCEPT ![u.ID] = [@ EXCEPT !.Name = u.Name, !.Email = u.Email,
                                                   !.UpdatedAt = u.UpdatedAt]],
          err |-> NoErr, rowsAffected |-> 1]

ExecDelete_AllRows(st, id, fail) ==
    IF fail THEN [store |-> st, err |-> ConnText, rowsAffected |-> 0]
    ELSE [store |-> <<>>, err |-> NoErr, rowsAffected |-> Cardinality(DOMAIN st)]

ExecDelete_KeepsRow(st, id, fail) ==
    IF fail THEN [store |-> st, err |-> ConnText, rowsAffected |-> 0]
    ELSE IF id \notin DOMAIN st
    THEN [store |-> st, err |-> NoErr, rowsAffected |-> 0]
    ELSE [store |-> st, err |-> NoErr, rowsAffected |-> 1]

\* DELETE FROM users WHERE id = $1
ExecDelete(st, id, fail) ==
    IF fail THEN [store |-> st, err |-> ConnText, rowsAffected |-> 0]
    ELSE IF id \notin DOMAIN st
    THEN [store |-> st, err |-> NoErr, rowsAffected |-> 0]
    ELSE [store |-> [i \in DOMAIN st \ {id} |-> st[i]], err |-> NoErr, rowsAffected |-> 1]

\* SELECT ... FROM users WHERE id = $1, scanned into a User
QueryRowByID(st, id, fail) ==
    IF fail THEN [user |-> NilUser, err |-> ConnText]
    ELSE IF id \notin DOMAIN st THEN [user |-> NilUser, err |-> ErrNoRows]
    ELSE [user |-> Entity(st[id]), err |-> NoErr]

\* SELECT ... FROM users WHERE email = $1, scanned into a User
QueryRowByEmail(st, email, fail) ==
    IF fail THEN [user |-> NilUser, err |-> ConnText]
    ELSE IF \A i \in DOMAIN st : st[i].Email # email THEN [user |-> NilUser, err |-> ErrNoRows]
    ELSE [user |-> Entity(st[CHOOSE i \in DOMAIN st : st[i].Email = email]), err |-> NoErr]

Orderings_Unordered(st) ==
    LET n == Cardinality(DOMAIN st)
    IN {o \in [1..n -> DOMAIN st] : \A i \in 1..n, j \in 1..n : o[i] = o[j] => i = j}

\* the orders in which ORDER BY created_at DESC may deliver the rows of st:
\* rows with equal created_at come in any order
Orderings(st) ==
    LET n == Cardinality(DOMAIN st)
    IN {o \in [1..n -> DOMAIN st] :
          /\ \A i \in 1..n, j \in 1..n : o[i] = o[j] => i = j
          /\ \A i \in 1..n, j \in 1..n : i < j => st[o[i]].CreatedAt >= st[o[j]].CreatedAt}

Min(a, b) == IF a < b THEN a ELSE b

\* SELECT ... FROM users ORDER BY created_at DESC LIMIT $1 OFFSET $2, the rows
\* scanned into Users; o is the order in which the store delivers the rows
QueryList(st, limit, offset, fail, o) ==
    IF fail THEN [users |-> <<>>, err |-> ConnText]
    ELSE [users |-> [i \in 1..(Min(offset + limit, Len(o)) - Min(offset, Len(o))) |->
                        Entity(st[o[offset + i]])],
          err |-> NoErr]

\* database/sql with a context: a statement whose context is done is not sent
\* to the store and the call returns the error of the context; under any
\* context the store may fail
StoreFailures_IgnoreCtx(ctx) == BOOLEAN

StoreFailures(ctx) == IF ctx = Cancelled THEN {TRUE} ELSE BOOLEAN

\* ------------------------------------------ repository/user_repository.go
contains(s, substr) == \E i \in 1..Len(s) : s[i] = substr

isUniqueConstraintError_Never(err) == FALSE

isUniqueConstraintError(err) ==
    err # NoErr /\ (contains(err, "duplicate key value") \/ contains(err, "unique constraint"))

CreateSwallow(st, u, fail) ==
    LET r == ExecInsert(st, u, fail)
    IN [store |-> r.store,
        err |-> IF r.err # NoErr /\ ~isUniqueConstraintError(r.err)
                THEN InternalError ELSE "nil"]

Create(st, u, fail) ==
    LET r == ExecInsert(st, u, fail)
    IN [store |-> r.store,
        err |-> IF r.err # NoErr
                THEN (IF isUniqueConstraintError(r.err) THEN ConflictError ELSE InternalError)
                ELSE "nil"]

GetByID_NoRowsNil(st, id, fail) ==
    LET r == QueryRowByID(st, id, fail)
    IN IF r.err # NoErr /\ r.err # ErrNoRows
       THEN [user |-> NilUser, err |-> InternalError]
       ELSE [user |-> r.user, err |-> "nil"]

GetByID(st, id, fail) ==
    LET r == QueryRowByID(st, id, fail)
    IN IF r.err # NoErr
       THEN [user |-> NilUser,
             err |-> IF r.err = ErrNoRows THEN NotFoundError ELSE InternalError]
       ELSE [user |-> r.user, err |-> "nil"]

GetByEmail(st, email, fail) ==
    LET r == QueryRowByEmail(st, email, fail)
    IN IF r.err # NoErr
       THEN [user |-> NilUser,
             err |-> IF r.err = ErrNoRows THEN NotFoundError ELSE InternalError]
       ELSE [user |-> r.user, err |-> "nil"]

Update(st, u, fail) ==
    LET r == ExecUpdate(st, u, fail)
    IN [store |-> r.store,
        err |-> IF r.err # NoErr
                THEN (IF isUniqueConstraintError(r.err) THEN ConflictError ELSE InternalError)
                ELSE IF r.rowsAffected = 0 THEN NotFoundError
                ELSE "nil"]

Delete(st, id, fail) ==
    LET r == ExecDelete(st, id, fail)
    IN [store |-> r.store,
        err |-> IF r.err # NoErr THEN InternalError
                ELSE IF r.rowsAffected = 0 THEN NotFoundError
                ELSE "nil"]

List(st, limit, offset, fail, o) ==
    LET r == QueryList(st, limit, offset, fail, o)
    IN IF r.err # NoErr
       THEN [users |-> <<>>, err |-> InternalError]
       ELSE [users |-> r.users, err |-> "nil"]


\* ------------------------------------------------ usecase/user_usecase.go
Response(u) == [ID |-> u.ID, Name |-> u.Name, Email |-> u.Email]

Fail_WithResponse(err) == [err |-> err, resp |-> [NilResp EXCEPT !.Name = "n1"]]

\* return nil, err
Fail(err) == [err |-> err, resp |-> NilResp]
Ok(u) == [err |-> "nil", resp |-> Response(u)]

Finish_Retry(w, r) ==
    IF r.err = InternalError /\ pc[w] # "idle"
    THEN UNCHANGED <<pc, res, user>>
    ELSE /\ pc' = [pc EXCEPT ![w] = "done"]
         /\ res' = [res EXCEPT ![w] = r]
         /\ user' = [user EXCEPT ![w] = NilUser]

\* the worker w returns r to its caller; the locals of the call are gone
Finish(w, r) ==
    /\ pc' = [pc EXCEPT ![w] = "done"]
    /\ res' = [res EXCEPT ![w] = r]
    /\ user' = [user EXCEPT ![w] = NilUser]

\* the worker w goes on to its next storage call with the entity u
Continue(w, next, u) ==
    /\ pc' = [pc EXCEPT ![w] = next]
    /\ user' = [user EXCEPT ![w] = u]
    /\ UNCHANGED res

\* the storage calls of the running operation, in order
Called(w, method) == calls' = [calls EXCEPT ![w] = Append(@, method)]
FirstCall(w, method) == calls' = [calls EXCEPT ![w] = <<method>>]

\* no worker holds a result that its caller has not taken yet
Delivered == \A w \in Workers : pc[w] # "done"

\* a request r arrives and is served by the first free worker
Begin(w, r) ==
    /\ pc[w] = "idle"
    /\ \A v \in Workers : v < w => pc[v] # "idle"
    /\ ops < MaxOps
    /\ ops' = ops + 1
    /\ req' = [req EXCEPT ![w] = r]

\* the Storage Port call of worker w returned err
Returned(w, fail, err) ==
    port' = [port EXCEPT ![w] = [NoPort EXCEPT !.failed = fail, !.err = err]]

\* CreateUser: if existingUser != nil
EmailInUse_Never(existingUser) == FALSE

EmailInUse(existingUser) == existingUser # NilUser

OwnedByAnother_Never(existingUser, id) == FALSE

OwnedByAnother_AnyOwner(existingUser, id) == existingUser # NilUser

\* UpdateUser: if existingUser != nil && existingUser.ID != id
OwnedByAnother(existingUser, id) == existingUser # NilUser /\ existingUser.ID # id

\* CreateUser, up to the call of GetByEmail: NewUser validates and builds the
\* entity with a fresh identifier and the current time
CreateUserStart(w, ctx, name, email) ==
    LET n == NewUser(name, email, nextID, now)
    IN /\ Begin(w, [NoReq EXCEPT !.op = "CreateUser", !.ctx = ctx,
                                 !.name = name, !.email = email])
       /\ calls' = [calls EXCEPT ![w] = <<>>]
       /\ IF n.err # "nil"
          THEN /\ Finish(w, Fail(ValidationError))
               /\ UNCHANGED nextID
          ELSE /\ nextID <= MaxUsers
               /\ nextID' = nextID + 1
               /\ Continue(w, "c_getByEmail", n.user)
       /\ UNCHANGED <<store, now, port>>
       /\ UNCHANGED vvars

\* CreateUser: the GetByEmail pre-check and the branch on its result
CreateUserGetByEmail(w) ==
    /\ pc[w] = "c_getByEmail"
    /\ \E fail \in StoreFailures(req[w].ctx) :
         LET g == GetByEmail(store, req[w].email, fail)
         IN /\ Returned(w, fail, g.err)
            /\ IF g.err # "nil" /\ ~IsNotFoundError(g.err)
               THEN Finish(w, Fail(g.err))
               ELSE IF EmailInUse(g.user)
               THEN Finish(w, Fail(ConflictError))
               ELSE Continue(w, "c_create", user[w])
    /\ Called(w, "GetByEmail")
    /\ UNCHANGED <<store, nextID, now, ops, req>>
    /\ UNCHANGED vvars

\* CreateUser: the Create call and the response
CreateUserCreate(w) ==
    /\ pc[w] = "c_create"
    /\ \E fail \in StoreFailures(req[w].ctx) :
         LET c == Create(store, user[w], fail)
         IN /\ store' = c.store
            /\ Returned(w, fail, c.err)
            /\ IF c.err # "nil"
               THEN Finish(w, Fail(c.err))
               ELSE Finish(w, Ok(user[w]))
    /\ Called(w, "Create")
    /\ UNCHANGED <<nextID, now, ops, req>>
    /\ UNCHANGED vvars

GetUser(w, ctx, id) ==
    /\ Begin(w, [NoReq EXCEPT !.op = "GetUser", !.ctx = ctx, !.id = id])
    /\ \E fail \in StoreFailures(ctx) :
         LET g == GetByID(store, id, fail)
         IN /\ Returned(w, fail, g.err)
            /\ IF g.err # "nil"
               THEN Finish(w, Fail(g.err))
               ELSE Finish(w, Ok(g.user))
    /\ FirstCall(w, "GetByID")
    /\ UNCHANGED <<store, nextID, now>>
    /\ UNCHANGED vvars

\* UpdateUser, up to the call of GetByEmail or Update: GetByID, then UpdateName
\* on the entity that was read
UpdateUserGetByID(w, ctx, id, name, email) ==
    /\ Begin(w, [NoReq EXCEPT !.op = "UpdateUser", !.ctx = ctx, !.id = id,
                              !.name = name, !.email = email])
    /\ \E fail \in StoreFailures(ctx) :
         LET g == GetByID(store, id, fail)
             n == IF name # "" THEN UpdateName(g.user, name, now)
                  ELSE [user |-> g.user, err |-> "nil"]
         IN /\ Returned(w, fail, g.err)
            /\ IF g.err # "nil"
               THEN Finish(w, Fail(g.err))
               ELSE IF n.err # "nil"
               THEN Finish(w, Fail(ValidationError))
               ELSE Continue(w, IF email # Empty THEN "u_getByEmail" ELSE "u_update", n.user)
    /\ FirstCall(w, "GetByID")
    /\ UNCHANGED <<store, nextID, now>>
    /\ UNCHANGED vvars

\* UpdateUser: the GetByEmail check for another user, then UpdateEmail
UpdateUserGetByEmail(w) ==
    /\ pc[w] = "u_getByEmail"
    /\ \E fail \in StoreFailures(req[w].ctx) :
         LET g == GetByEmail(store, req[w].email, fail)
             e == UpdateEmail(user[w], req[w].email, now)
         IN /\ Returned(w, fail, g.err)
            /\ IF g.err # "nil" /\ ~IsNotFoundError(g.err)
               THEN Finish(w, Fail(g.err))
               ELSE IF OwnedByAnother(g.user, req[w].id)
               THEN Finish(w, Fail(ConflictError))
               ELSE IF e.err # "nil"
               THEN Finish(w, Fail(ValidationError))
               ELSE Continue(w, "u_update", e.user)
    /\ Called(w, "GetByEmail")
    /\ UNCHANGED <<store, nextID, now, ops, req>>
    /\ UNCHANGED vvars

\* UpdateUser: the Update call and the response
UpdateUserUpdate(w) ==
    /\ pc[w] = "u_update"
    /\ \E fail \in StoreFailures(req[w].ctx) :
         LET u == Update(store, user[w], fail)
         IN /\ store' = u.store
            /\ Returned(w, fail, u.err)
            /\ IF u.err # "nil"
               THEN Finish(w, Fail(u.err))
               ELSE Finish(w, Ok(user[w]))
    /\ Called(w, "Update")
    /\ UNCHANGED <<nextID, now, ops, req>>
    /\ UNCHANGED vvars

\* DeleteUser has no result beside its error
DeleteUser(w, ctx, id) ==
    /\ Begin(w, [NoReq EXCEPT !.op = "DeleteUser", !.ctx = ctx, !.id = id])
    /\ \E fail \in StoreFailures(ctx) :
         LET d == Delete(store, id, fail)
         IN /\ store' = d.store
            /\ Returned(w, fail, d.err)
            /\ Finish(w, Fail(d.err))
    /\ FirstCall(w, "Delete")
    /\ UNCHANGED <<nextID, now>>
    /\ UNCHANGED vvars

\* ListUsers: if limit <= 0 { limit = 10 }
DefaultLimit == 10

NormalLimit_ZeroKept(limit) == IF limit < 0 THEN DefaultLimit ELSE limit

NormalLimit(limit) == IF limit <= 0 THEN DefaultLimit ELSE limit

\* ListUsers: if offset < 0 { offset = 0 }
NormalOffset(offset) == IF offset < 0 THEN 0 ELSE offset

\* ListUsers: the response built from the page that List returned
ListResponse(users, limit, offset) ==
    [Users |-> [i \in 1..Len(users) |-> Response(users[i])],
     Total |-> Len(users),
     Limit |-> limit,
     Offset |-> offset]

ListUsers(w, ctx, limit, offset) ==
    /\ Begin(w, [NoReq EXCEPT !.op = "ListUsers", !.ctx = ctx,
                              !.limit = limit, !.offset = offset])
    /\ \E fail \in StoreFailures(ctx), o \in Orderings(store) :
         LET l == List(store, NormalLimit(limit), NormalOffset(offset), fail, o)
         IN /\ port' = [port EXCEPT ![w] = [failed |-> fail, err |-> l.err,
                                            limit |-> NormalLimit(limit),
                                            offset |-> NormalOffset(offset),
                                            users |-> l.users]]
            /\ IF l.err # "nil"
               THEN Finish(w, Fail(l.err))
               ELSE Finish(w, [err |-> "nil",
                               resp |-> ListResponse(l.users, NormalLimit(limit),
                                                     NormalOffset(offset))])
    /\ FirstCall(w, "List")
    /\ UNCHANGED <<store, nextID, now>>
    /\ UNCHANGED vvars

\* the caller takes the result; the worker is free for the next request
Return(w) ==
    /\ pc[w] = "done"
    /\ pc' = [pc EXCEPT ![w] = "idle"]
    /\ req' = [req EXCEPT ![w] = NoReq]
    /\ res' = [res EXCEPT ![w] = NoRes]
    /\ calls' = [calls EXCEPT ![w] = <<>>]
    /\ port' = [port EXCEPT ![w] = NoPort]
    /\ UNCHANGED <<store, nextID, now, ops, user>>
    /\ UNCHANGED vvars

\* the caller takes the result and the request is no longer in service
Release(w) ==
    /\ pc[w] = "done"
    /\ pc' = [pc EXCEPT ![w] = "idle"]
    /\ req' = [req EXCEPT ![w] = NoReq]
    /\ res' = [res EXCEPT ![w] = NoRes]
    /\ calls' = [calls EXCEPT ![w] = <<>>]
    /\ port' = [port EXCEPT ![w] = NoPort]
    /\ ops' = ops - 1
    /\ UNCHANGED <<store, nextID, now, user>>
    /\ UNCHANGED vvars

\* time.Now() is non-decreasing
Tick ==
    /\ now < MaxClock
    /\ now' = now + 1
    /\ UNCHANGED <<store, nextID, ops, pc, req, user, res, calls, port>>
    /\ UNCHANGED vvars

\* ------------------------------------------------ handler/user_handler.go
\* an error value as handleError sees it: which value it is (one of the three
\* sentinel errors of package usecase, or any other value), the Types of the
\* DomainErrors on its Unwrap chain, outermost first, and its message
ErrInvalidInput == "usecase.ErrInvalidInput"
ErrEmailExists == "usecase.ErrEmailExists"
ErrUserNotFound == "usecase.ErrUserNotFound"
OtherError == "other"

MaxChain == 2
ErrorTypes == {ValidationError, NotFoundError, ConflictError, InternalError, "UNKNOWN"}
Messages == {"m1", "m2"}

RECURSIVE Chains(_)
Chains(n) ==
    IF n = 0 THEN {<<>>}
    ELSE LET S == Chains(n - 1)
         IN S \cup {Append(c, t) : c \in {d \in S : Len(d) = n - 1}, t \in ErrorTypes}

HandlerErrors ==
    {[id |-> i, types |-> <<>>, msg |-> i] : i \in {ErrInvalidInput, ErrEmailExists, ErrUserNotFound}}
    \cup {[id |-> OtherError, types |-> c, msg |-> m] : c \in Chains(MaxChain), m \in Messages}

NoError == [id |-> OtherError, types |-> <<>>, msg |-> ""]

DomainType_Innermost(err) ==
    IF err.types = <<>> THEN "nil" ELSE err.types[Len(err.types)]

\* errors.As(err, &domainErr) and domainErr.Type: the Type of the first
\* DomainError on the chain, "nil" when the chain has none
DomainType(err) == IF err.types = <<>> THEN "nil" ELSE err.types[1]

IsValidationError(t) == t = ValidationError
IsConflictError(t) == t = ConflictError
IsInternalError(t) == t = InternalError

StatusBadRequest == 400
StatusNotFound == 404
StatusConflict == 409
StatusInternalServerError == 500

handleError(err) ==
    IF err.id = ErrInvalidInput THEN StatusBadRequest
    ELSE IF err.id = ErrEmailExists THEN StatusConflict
    ELSE IF err.id = ErrUserNotFound THEN StatusNotFound
    ELSE IF IsValidationError(DomainType(err)) THEN StatusBadRequest
    ELSE IF IsNotFoundError(DomainType(err)) THEN StatusNotFound
    ELSE IF IsConflictError(DomainType(err)) THEN StatusConflict
    ELSE IF IsInternalError(DomainType(err)) THEN StatusInternalServerError
    ELSE StatusInternalServerError

\* ------------------------------------------------------------ specifications
\* the users table a service instance may find when it connects: empty, or
\* holding a user that an earlier CreateUser stored
Seeded == 1 :> Row(NewUser("n1", E1, 1, 0).user)

InitService(st) ==
    /\ store = st
    /\ nextID = Cardinality(DOMAIN st) + 1
    /\ now = 0
    /\ ops = 0
    /\ pc = [w \in Workers |-> "idle"]
    /\ req = [w \in Workers |-> NoReq]
    /\ user = [w \in Workers |-> NilUser]
    /\ res = [w \in Workers |-> NoRes]
    /\ calls = [w \in Workers |-> <<>>]
    /\ port = [w \in Workers |-> NoPort]

\* the validator and the handler have not been applied
InitPure ==
    /\ vName = ""
    /\ vEmail = Empty
    /\ vOut = "pending"
    /\ hErr = NoError
    /\ hStatus = 0

Init ==
    /\ \E st \in {<<>>, Seeded} : InitService(st)
    /\ InitPure

\* the service under requests whose context is not done and whose new e-mail
\* in UpdateUser is well-formed: a result is taken by its caller as soon as it
\* is returned
Next ==
    \/ \E w \in Workers, name \in NewNames, email \in Emails :
          Delivered /\ CreateUserStart(w, Background, name, email)
    \/ \E w \in Workers : Delivered /\ CreateUserGetByEmail(w)
    \/ \E w \in Workers : Delivered /\ CreateUserCreate(w)
    \/ \E w \in Workers, id \in IDs : Delivered /\ GetUser(w, Background, id)
    \/ \E w \in Workers, id \in IDs, name \in ChangedNames, email \in {Empty, E1, E2} :
          Delivered /\ UpdateUserGetByID(w, Background, id, name, email)
    \/ \E w \in Workers : Delivered /\ UpdateUserGetByEmail(w)
    \/ \E w \in Workers : Delivered /\ UpdateUserUpdate(w)
    \/ \E w \in Workers, id \in IDs : Delivered /\ DeleteUser(w, Background, id)
    \/ \E w \in Workers, limit \in Limits, offset \in Offsets :
          Delivered /\ ListUsers(w, Background, limit, offset)
    \/ Delivered /\ Tick
    \/ \E w \in Workers : Return(w)

Spec == Init /\ [][Next]_vars

\* the service under requests with any context, done or not, on fewer names
\* and e-mail addresses
NextContext ==
    \/ \E w \in Workers, ctx \in Contexts, email \in {E2, NoAt} :
          Delivered /\ CreateUserStart(w, ctx, "n1", email)
    \/ \E w \in Workers : Delivered /\ CreateUserGetByEmail(w)
    \/ \E w \in Workers : Delivered /\ CreateUserCreate(w)
    \/ \E w \in Workers, ctx \in Contexts, id \in IDs : Delivered /\ GetUser(w, ctx, id)
    \/ \E w \in Workers, ctx \in Contexts, id \in IDs, email \in {Empty, E2, NoAt} :
          Delivered /\ UpdateUserGetByID(w, ctx, id, "n2", email)
    \/ \E w \in Workers : Delivered /\ UpdateUserGetByEmail(w)
    \/ \E w \in Workers : Delivered /\ UpdateUserUpdate(w)
    \/ \E w \in Workers, ctx \in Contexts, id \in IDs : Delivered /\ DeleteUser(w, ctx, id)
    \/ \E w \in Workers, ctx \in Contexts : Delivered /\ ListUsers(w, ctx, 0, 0)
    \/ Delivered /\ Tick
    \/ \E w \in Workers : Return(w)

SpecContext == Init /\ [][NextContext]_vars

\* the service under a standing load around the seeded user: at most MaxOps
\* requests are in service at a time, and a request that has returned makes
\* room for the next one; name-only updates and deletions address user 1,
\* e-mail updates every user, and the clock stands still
NextSteady ==
    \/ \E w \in Workers : Delivered /\ CreateUserStart(w, Background, "n1", E1)
    \/ \E w \in Workers : Delivered /\ CreateUserGetByEmail(w)
    \/ \E w \in Workers : Delivered /\ CreateUserCreate(w)
    \/ \E w \in Workers : Delivered /\ UpdateUserGetByID(w, Background, 1, "n2", Empty)
    \/ \E w \in Workers, id \in IDs :
          Delivered /\ UpdateUserGetByID(w, Background, id, "", E2)
    \/ \E w \in Workers : Delivered /\ UpdateUserGetByEmail(w)
    \/ \E w \in Workers : Delivered /\ UpdateUserUpdate(w)
    \/ \E w \in Workers : Delivered /\ DeleteUser(w, Background, 1)
    \/ \E w \in Workers : Release(w)

SpecSteady == Init /\ [][NextSteady]_vars

\* the service on an empty table under CreateUser and GetUser requests only,
\* with the e-mail addresses listed as malformed among the inputs; every
\* worker serves one request and keeps its result
NextCreate ==
    \/ \E w \in Workers, name \in NewNames, email \in ListedEmails :
          CreateUserStart(w, Background, name, email)
    \/ \E w \in Workers : CreateUserGetByEmail(w)
    \/ \E w \in Workers : CreateUserCreate(w)
    \/ \E w \in Workers, id \in IDs : GetUser(w, Background, id)
    \/ Tick

InitCreate ==
    /\ InitService(<<>>)
    /\ InitPure

SpecCreate == InitCreate /\ [][NextCreate]_vars

\* the service under CreateUser and ListUsers requests only, with a wider
\* range of limits and offsets
NextList ==
    \/ \E w \in Workers, email \in {E1, E2} :
          Delivered /\ CreateUserStart(w, Background, "n1", email)
    \/ \E w \in Workers : Delivered /\ CreateUserGetByEmail(w)
    \/ \E w \in Workers : Delivered /\ CreateUserCreate(w)
    \/ \E w \in Workers, limit \in PageLimits, offset \in PageOffsets :
          Delivered /\ ListUsers(w, Background, limit, offset)
    \/ Delivered /\ Tick
    \/ \E w \in Workers : Return(w)

SpecList == Init /\ [][NextList]_vars

\* the entity validator applied to every (name, email) over Alphabet
InitValidator ==
    /\ InitService(<<>>)
    /\ vName \in Names
    /\ vEmail \in SeqsUpTo(MaxLen)
    /\ vOut = "pending"
    /\ hErr = NoError
    /\ hStatus = 0

Validate ==
    /\ vOut = "pending"
    /\ vOut' = validateUserInput(vName, vEmail)
    /\ UNCHANGED <<vName, vEmail, hErr, hStatus>>
    /\ UNCHANGED svars

SpecValidator == InitValidator /\ [][Validate]_vars

\* handleError applied to every error value of HandlerErrors
InitHandler ==
    /\ InitService(<<>>)
    /\ vName = ""
    /\ vEmail = Empty
    /\ vOut = "pending"
    /\ hErr \in HandlerErrors
    /\ hStatus = 0

HandleError ==
    /\ hStatus = 0
    /\ hStatus' = handleError(hErr)
    /\ UNCHANGED <<vName, vEmail, vOut, hErr>>
    /\ UNCHANGED svars

SpecHandler == InitHandler /\ [][HandleError]_vars

TypeOK ==
    /\ DOMAIN store \subseteq IDs
    /\ nextID \in 1..(MaxUsers + 1)
    /\ now \in 0..MaxClock
    /\ ops \in 0..MaxOps


\* ------------------------------------------------------------------ claims
EmailRows(e) == {i \in DOMAIN store : store[i].Email = e}

Started(w, op) == pc[w] # "idle" /\ req[w].op = op

\* C1: two CreateUser calls with the same valid e-mail on a table without it,
\* sequential or interleaved at their storage calls, no store failure other
\* than the uniqueness violation: exactly one succeeds, the other fails with
\* Conflict, and the table ends with exactly one record for that e-mail.
C1_TwoCreatesOneWins ==
    \A w1 \in Workers, w2 \in Workers :
        ( /\ w1 # w2
          /\ pc[w1] = "done" /\ pc[w2] = "done"
          /\ req[w1].op = "CreateUser" /\ req[w2].op = "CreateUser"
          /\ req[w1].email = req[w2].email
          /\ res[w1].err \notin {ValidationError, InternalError}
          /\ res[w2].err \notin {ValidationError, InternalError}
          /\ \A w3 \in Workers \ {w1, w2} :
                ~(Started(w3, "CreateUser") /\ req[w3].email = req[w1].email) )
        => /\ {res[w1].err, res[w2].err} = {"nil", ConflictError}
           /\ Cardinality(EmailRows(req[w1].email)) = 1

\* both calls passed the pre-check, and the write of the second was refused
C1_Witness ==
    /\ pc[1] = "done" /\ pc[2] = "done"
    /\ req[1].op = "CreateUser" /\ req[2].op = "CreateUser"
    /\ req[1].email = E1 /\ req[2].email = E1
    /\ res[1].err = "nil" /\ res[2].err = ConflictError
    /\ calls[2] = <<"GetByEmail", "Create">>
    /\ Cardinality(EmailRows(E1)) = 1

\* C2: in every reachable state no two stored users have the same e-mail.
C2_EmailUnique ==
    \A i \in DOMAIN store, j \in DOMAIN store :
        store[i].Email = store[j].Email => i = j

\* two users are stored and a write was refused by the constraint
C2_Witness ==
    /\ Cardinality(DOMAIN store) = 2
    /\ \E w \in Workers :
          /\ pc[w] = "done"
          /\ res[w].err = ConflictError
          /\ calls[w] # <<>>
          /\ calls[w][Len(calls[w])] \in {"Create", "Update"}

\* C3 as stated: CreateUser with an empty name, or with an e-mail that is empty
\* or one of "noat.com", "a@b", "a@.com", "a@b.", fails with Validation,
\* returns no user and calls no storage method.
C3_ListedInputsRejected ==
    \A w \in Workers :
        ( /\ Started(w, "CreateUser")
          /\ \/ req[w].name = ""
             \/ req[w].email \in {Empty, NoAt, NoDot, DotFirst, DotLast} )
        => /\ pc[w] = "done"
           /\ res[w] = Fail(ValidationError)
           /\ calls[w] = <<>>

\* C3, amended: CreateUser with an empty name, or with an e-mail that is empty
\* or one of "noat.com", "a@b", "a@b.", fails with Validation, returns no user
\* and has called no storage method.
C3_MalformedInputsRejected ==
    \A w \in Workers :
        ( /\ Started(w, "CreateUser")
          /\ \/ req[w].name = ""
             \/ req[w].email \in {Empty, NoAt, NoDot, DotLast} )
        => /\ pc[w] = "done"
           /\ res[w] = Fail(ValidationError)
           /\ calls[w] = <<>>

\* a request with a name and the address "a@b." has been rejected
C3_Witness ==
    \E w \in Workers :
        /\ pc[w] = "done" /\ req[w].op = "CreateUser"
        /\ req[w].name = "n1" /\ req[w].email = DotLast
        /\ res[w] = Fail(ValidationError)
        /\ calls[w] = <<>>

\* C4 as stated: the validator succeeds exactly when the name is non-empty and
\* the e-mail has exactly one '@' and a '.' strictly after it that is not the
\* final character; InvalidName for an empty name, InvalidEmail otherwise.
AtPositions(e) == {i \in 1..Len(e) : e[i] = "@"}

ClaimedOutcome(name, e) ==
    IF name = "" THEN "ErrInvalidName"
    ELSE IF /\ Cardinality(AtPositions(e)) = 1
            /\ \E i \in AtPositions(e), j \in 1..Len(e) :
                  j > i /\ e[j] = "." /\ j # Len(e)
    THEN "nil"
    ELSE "ErrInvalidEmail"

C4_ValidatorAsClaimed ==
    vOut # "pending" => vOut = ClaimedOutcome(vName, vEmail)

\* C4, amended: the validator succeeds exactly when the name is non-empty and
\* the e-mail has at least five characters, exactly one '@' that is neither
\* its first nor its last character, and a '.' somewhere after the '@' (the
\* final character included); InvalidName for an empty name, InvalidEmail
\* otherwise.
AmendedOutcome(name, e) ==
    IF name = "" THEN "ErrInvalidName"
    ELSE IF /\ Len(e) >= 5
            /\ Cardinality(AtPositions(e)) = 1
            /\ \A i \in AtPositions(e) :
                  /\ i > 1
                  /\ i < Len(e)
                  /\ \E j \in 1..Len(e) : j > i /\ e[j] = "."
    THEN "nil"
    ELSE "ErrInvalidEmail"

C4_Validator ==
    vOut # "pending" => vOut = AmendedOutcome(vName, vEmail)

\* an address of four characters that has its '@' and its '.' is rejected,
\* and one of five characters that ends in its only '.' is accepted
C4_Witness ==
    \/ /\ vName = "n1"
       /\ vEmail = <<"a", "@", ".", "a">>
       /\ vOut = "ErrInvalidEmail"
    \/ /\ vName = "n1"
       /\ vEmail = <<"a", "a", "@", "a", ".">>
       /\ vOut = "nil"


\* the step taken is the storage call that worker w makes at position at
Step(w, at) == pc[w] = at /\ pc'[w] # at

\* the store did not fail in the step that worker w took
NoStoreFailure(w) == res'[w].err # InternalError

\* C5: for a valid (name, email) whose e-mail is not stored, CreateUser
\* succeeds with a non-nil identifier and stores a record with
\* created_at = updated_at; a GetUser of the returned identifier, with no
\* mutation of the record in between (the requests are CreateUser and GetUser
\* only), returns the same id, name and e-mail.
C5_CreateSucceeds(w) ==
    /\ ( Step(w, "c_getByEmail") /\ EmailRows(req[w].email) = {} /\ NoStoreFailure(w) )
       => pc'[w] = "c_create"
    /\ ( Step(w, "c_create") /\ EmailRows(req[w].email) = {} /\ NoStoreFailure(w) )
       => /\ res'[w].err = "nil"
          /\ res'[w].resp.ID # uuidNil
          /\ res'[w].resp.Name = req[w].name
          /\ res'[w].resp.Email = req[w].email
          /\ res'[w].resp.ID \in DOMAIN store'
          /\ res'[w].resp.ID \notin DOMAIN store
          /\ store'[res'[w].resp.ID].Name = req[w].name
          /\ store'[res'[w].resp.ID].Email = req[w].email
          /\ store'[res'[w].resp.ID].CreatedAt = store'[res'[w].resp.ID].UpdatedAt

C5_RoundTrip ==
    \A w1 \in Workers, w2 \in Workers :
        ( /\ pc[w1] = "done" /\ req[w1].op = "CreateUser" /\ res[w1].err = "nil"
          /\ pc[w2] = "done" /\ req[w2].op = "GetUser" /\ res[w2].err = "nil"
          /\ req[w2].id = res[w1].resp.ID
          /\ req[w2].id \in DOMAIN store )
        => /\ res[w2].resp = res[w1].resp
           /\ res[w2].resp.Name = req[w1].name
           /\ res[w2].resp.Email = req[w1].email
           /\ store[req[w2].id].CreatedAt = store[req[w2].id].UpdatedAt

C5_CreateThenGet ==
    [][ (\A w \in Workers : C5_CreateSucceeds(w)) /\ C5_RoundTrip' ]_vars

C5_Witness ==
    \E w1 \in Workers, w2 \in Workers :
        /\ pc[w1] = "done" /\ req[w1].op = "CreateUser" /\ res[w1].err = "nil"
        /\ pc[w2] = "done" /\ req[w2].op = "GetUser" /\ res[w2].err = "nil"
        /\ req[w2].id = res[w1].resp.ID
        /\ req[w2].id \in DOMAIN store
        /\ res[w2].resp = res[w1].resp

\* the e-mail e is held by a stored user other than id
HeldByOther(id, e) == \E i \in DOMAIN store : i # id /\ store[i].Email = e

\* C6: UpdateUser(id, email = e) of a stored user, where e is held by a user
\* with a different identifier, fails with Conflict at the GetByEmail check,
\* issues no Update call and leaves the table unchanged.
C6_UpdateToTakenEmail ==
    [][ \A w \in Workers :
          ( /\ Step(w, "u_getByEmail")
            /\ HeldByOther(req[w].id, req[w].email)
            /\ NoStoreFailure(w) )
          => /\ pc'[w] = "done"
             /\ res'[w] = Fail(ConflictError)
             /\ calls'[w] = <<"GetByID", "GetByEmail">>
             /\ store' = store ]_vars

C6_Witness ==
    \E w \in Workers :
        /\ pc[w] = "done" /\ req[w].op = "UpdateUser"
        /\ res[w] = Fail(ConflictError)
        /\ calls[w] = <<"GetByID", "GetByEmail">>
        /\ req[w].id \in DOMAIN store
        /\ store[req[w].id].Email # req[w].email
        /\ HeldByOther(req[w].id, req[w].email)

\* the user id is stored and its e-mail is e
OwnEmail(id, e) == id \in DOMAIN store /\ store[id].Email = e

\* C7: UpdateUser(id, email = e) where e is the stored e-mail of the user id
\* itself is not reported as Conflict: the GetByEmail check lets it pass, the
\* Update call succeeds, and the stored e-mail is still e.
C7_UpdateToOwnEmail ==
    [][ \A w \in Workers :
          /\ ( /\ Step(w, "u_getByEmail")
               /\ OwnEmail(req[w].id, req[w].email)
               /\ NoStoreFailure(w) )
             => pc'[w] = "u_update"
          /\ ( /\ Step(w, "u_update")
               /\ req[w].email # Empty
               /\ OwnEmail(req[w].id, req[w].email)
               /\ NoStoreFailure(w) )
             => /\ res'[w].err = "nil"
                /\ res'[w].resp.Email = req[w].email
                /\ store'[req[w].id].Email = req[w].email ]_vars

C7_Witness ==
    \E w \in Workers :
        /\ pc[w] = "done" /\ req[w].op = "UpdateUser"
        /\ res[w].err = "nil"
        /\ req[w].email # Empty
        /\ calls[w] = <<"GetByID", "GetByEmail", "Update">>
        /\ OwnEmail(req[w].id, req[w].email)
        /\ ~HeldByOther(req[w].id, req[w].email)

\* worker w takes the step of a successful Update call
UpdateWritten(w) == Step(w, "u_update") /\ res'[w].err = "nil"

\* C8: a successful UpdateUser that supplies only one of name / e-mail stores
\* the other field as it was immediately before its Update call.
C8_OtherFieldKept ==
    [][ \A w \in Workers :
          UpdateWritten(w)
          => /\ (req[w].name # "" /\ req[w].email = Empty)
                => store'[req[w].id].Email = store[req[w].id].Email
             /\ (req[w].name = "" /\ req[w].email # Empty)
                => store'[req[w].id].Name = store[req[w].id].Name ]_vars

\* C9: with a non-decreasing clock, a successful UpdateUser that sets a name
\* or an e-mail stores an updated_at not less than the one stored immediately
\* before its Update call.
C9_UpdatedAtNeverDecreases ==
    [][ \A w \in Workers :
          ( UpdateWritten(w) /\ (req[w].name # "" \/ req[w].email # Empty) )
          => store'[req[w].id].UpdatedAt >= store[req[w].id].UpdatedAt ]_vars

\* C10: with a non-decreasing clock, every stored user has
\* updated_at >= created_at in every reachable state.
C10_UpdatedNotBeforeCreated ==
    \A i \in DOMAIN store : store[i].UpdatedAt >= store[i].CreatedAt

\* a stored user that an UpdateUser has written at a later time
C10_Witness ==
    \E i \in DOMAIN store, w \in Workers :
        /\ pc[w] = "done" /\ req[w].op = "UpdateUser" /\ req[w].id = i
        /\ res[w].err = "nil"
        /\ store[i].UpdatedAt > store[i].CreatedAt

\* worker w takes up a request in this step, and makes its first storage call
\* unless the request is a CreateUser
Begun(w) == pc[w] = "idle" /\ pc'[w] # "idle"

\* the store did not fail in the storage call that worker w made in this step
StoreWorked(w) == ~port'[w].failed

\* C11: GetUser, UpdateUser and DeleteUser of an identifier that is not in the
\* table (never issued, or issued and deleted since) fail with NotFound, and
\* leave the table as it is, provided the store does not fail.
C11_AbsentIdNotFound ==
    [][ \A w \in Workers :
          ( /\ Begun(w)
            /\ req'[w].op \in {"GetUser", "UpdateUser", "DeleteUser"}
            /\ req'[w].id \notin DOMAIN store
            /\ StoreWorked(w) )
          => /\ pc'[w] = "done"
             /\ res'[w] = Fail(NotFoundError)
             /\ store' = store ]_vars

\* an UpdateUser of an identifier that was issued and deleted since
C11_Witness ==
    \E w \in Workers :
        /\ pc[w] = "done" /\ req[w].op = "UpdateUser"
        /\ req[w].id < nextID /\ req[w].id \notin DOMAIN store
        /\ ~port[w].failed
        /\ res[w] = Fail(NotFoundError)

\* C12: DeleteUser of a stored identifier succeeds and removes that record and
\* no other; a DeleteUser of an identifier that is no longer stored (a second
\* DeleteUser of it: identifiers are never issued twice) fails with NotFound
\* and changes nothing.  Both provided the store does not fail.
C12_DeleteOnceThenNotFound ==
    [][ \A w \in Workers :
          ( Begun(w) /\ req'[w].op = "DeleteUser" /\ StoreWorked(w) )
          => IF req'[w].id \in DOMAIN store
             THEN /\ pc'[w] = "done"
                  /\ res'[w].err = "nil"
                  /\ DOMAIN store' = DOMAIN store \ {req'[w].id}
                  /\ \A i \in DOMAIN store' : store'[i] = store[i]
             ELSE /\ pc'[w] = "done"
                  /\ res'[w].err = NotFoundError
                  /\ store' = store ]_vars

\* the second DeleteUser of the one user that was stored
C12_Witness ==
    \E w \in Workers :
        /\ pc[w] = "done" /\ req[w].op = "DeleteUser"
        /\ req[w].id = 1 /\ nextID = 2 /\ ops = 2
        /\ store = <<>>
        /\ calls[w] = <<"Delete">>
        /\ ~port[w].failed
        /\ res[w].err = NotFoundError

\* C13: for every limit and offset, ListUsers calls List once, with
\* limit' = (10 if limit <= 0, else limit) and offset' = (0 if offset < 0, else
\* offset); on success the response carries limit', offset', the users that
\* List returned, in that order, and total = the number of users in that page.
C13_ListNormalised ==
    \A w \in Workers :
        ( pc[w] = "done" /\ req[w].op = "ListUsers" )
        => LET limit1 == IF req[w].limit <= 0 THEN 10 ELSE req[w].limit
               offset1 == IF req[w].offset < 0 THEN 0 ELSE req[w].offset
           IN /\ calls[w] = <<"List">>
              /\ port[w].limit = limit1
              /\ port[w].offset = offset1
              /\ res[w].err = "nil"
                 => /\ res[w].resp.Limit = limit1
                    /\ res[w].resp.Offset = offset1
                    /\ Len(res[w].resp.Users) = Len(port[w].users)
                    /\ \A i \in 1..Len(port[w].users) :
                          /\ res[w].resp.Users[i].ID = port[w].users[i].ID
                          /\ res[w].resp.Users[i].Name = port[w].users[i].Name
                          /\ res[w].resp.Users[i].Email = port[w].users[i].Email
                    /\ res[w].resp.Total = Len(port[w].users)

\* ListUsers(1, -1) on a table of two users: offset 0 and a total of 1
C13_Witness ==
    \E w \in Workers :
        /\ pc[w] = "done" /\ req[w].op = "ListUsers" /\ res[w].err = "nil"
        /\ Cardinality(DOMAIN store) = 2
        /\ req[w].limit = 1 /\ req[w].offset = -1
        /\ port[w].limit = 1 /\ port[w].offset = 0
        /\ res[w].resp.Limit = 1 /\ res[w].resp.Offset = 0
        /\ res[w].resp.Total = 1

\* ids is the whole table in an order of descending created_at
Descending(ids) ==
    /\ Len(ids) = Cardinality(DOMAIN store)
    /\ \A i \in DOMAIN store : \E k \in 1..Len(ids) : ids[k] = i
    /\ \A k \in 1..Len(ids), l \in 1..Len(ids) :
          k < l => store[ids[k]].CreatedAt >= store[ids[l]].CreatedAt

\* C14: a successful ListUsers returns the records at positions offset' ..
\* offset'+limit'-1 (fewer when the table ends before) of the table at the
\* time of the query taken in an order of descending created_at, in that
\* order, with the name and e-mail stored for each.
C14_PageOfDescendingOrder ==
    [][ \A w \in Workers :
          ( Begun(w) /\ req'[w].op = "ListUsers" /\ res'[w].err = "nil" )
          => LET limit1 == IF req'[w].limit <= 0 THEN 10 ELSE req'[w].limit
                 offset1 == IF req'[w].offset < 0 THEN 0 ELSE req'[w].offset
                 n == Cardinality(DOMAIN store)
                 first == IF offset1 < n THEN offset1 ELSE n
                 last == IF offset1 + limit1 < n THEN offset1 + limit1 ELSE n
                 page == res'[w].resp.Users
             IN \E ids \in [1..n -> DOMAIN store] :
                   /\ Descending(ids)
                   /\ Len(page) = last - first
                   /\ \A k \in 1..Len(page) :
                         /\ page[k].ID = ids[first + k]
                         /\ page[k].Name = store[ids[first + k]].Name
                         /\ page[k].Email = store[ids[first + k]].Email ]_vars

\* two users created at different times, and a page that starts at the
\* second position: it holds the earlier user only
C14_Witness ==
    \E w \in Workers :
        /\ pc[w] = "done" /\ req[w].op = "ListUsers" /\ res[w].err = "nil"
        /\ Cardinality(DOMAIN store) = 2
        /\ req[w].limit = 0 /\ req[w].offset = 1
        /\ \E i \in DOMAIN store, j \in DOMAIN store :
              /\ store[i].CreatedAt > store[j].CreatedAt
              /\ Len(res[w].resp.Users) = 1
              /\ res[w].resp.Users[1].ID = j

\* C15: when the record that UpdateUser read with GetByID is no longer stored
\* at the time of its Update call (another operation deleted it in between),
\* and the store does not fail, UpdateUser returns NotFound and the
\* identifier is still absent afterwards: no success, no record re-created.
C15_UpdateOfDeletedNotFound ==
    [][ \A w \in Workers :
          ( /\ Step(w, "u_update")
            /\ req[w].id \notin DOMAIN store
            /\ StoreWorked(w) )
          => /\ pc'[w] = "done"
             /\ res'[w] = Fail(NotFoundError)
             /\ req[w].id \notin DOMAIN store'
             /\ store' = store ]_vars

\* an UpdateUser whose GetByID succeeded and whose Update found no row
C15_Witness ==
    \E w \in Workers :
        /\ pc[w] = "done" /\ req[w].op = "UpdateUser"
        /\ calls[w] # <<>>
        /\ calls[w][1] = "GetByID" /\ calls[w][Len(calls[w])] = "Update"
        /\ ~port[w].failed
        /\ res[w] = Fail(NotFoundError)
        /\ req[w].id \notin DOMAIN store

\* the entities that the port methods are applied to in C16
PortUsers ==
    {[ID |-> i, Name |-> "n1", Email |-> e, CreatedAt |-> 0, UpdatedAt |-> 0] :
        i \in IDs, e \in {E1, E2}}

\* the store refuses the write of u: its e-mail is held by another row or,
\* for an insert, its identifier is already a key
Refused(u, insert) ==
    \/ \E i \in DOMAIN store : i # u.ID /\ store[i].Email = u.Email
    \/ insert /\ u.ID \in DOMAIN store

\* C16: on every reachable table the Storage Port gives each call exactly one
\* outcome: Create and Update return Conflict when the store refuses the write
\* for uniqueness; Update and Delete return NotFound when no row has the
\* identifier; GetByID and GetByEmail return NotFound when no row matches;
\* every call in which the store fails returns Internal; otherwise the call
\* succeeds.  A Create, Update or Delete that returns an error leaves the
\* table unchanged.
C16_PortClassifies ==
    \A fail \in BOOLEAN :
        /\ \A u \in PortUsers :
              LET c == Create(store, u, fail)
                  p == Update(store, u, fail)
              IN /\ c.err = IF fail THEN InternalError
                            ELSE IF Refused(u, TRUE) THEN ConflictError
                            ELSE "nil"
                 /\ c.err # "nil" => c.store = store
                 /\ c.err = "nil" => /\ DOMAIN c.store = DOMAIN store \cup {u.ID}
                                     /\ c.store[u.ID] = u
                 /\ p.err = IF fail THEN InternalError
                            ELSE IF u.ID \notin DOMAIN store THEN NotFoundError
                            ELSE IF Refused(u, FALSE) THEN ConflictError
                            ELSE "nil"
                 /\ p.err # "nil" => p.store = store
                 /\ p.err = "nil" => /\ DOMAIN p.store = DOMAIN store
                                     /\ p.store[u.ID].Email = u.Email
        /\ \A id \in IDs :
              LET d == Delete(store, id, fail)
                  g == GetByID(store, id, fail)
              IN /\ d.err = IF fail THEN InternalError
                            ELSE IF id \notin DOMAIN store THEN NotFoundError
                            ELSE "nil"
                 /\ d.err # "nil" => d.store = store
                 /\ d.err = "nil" => DOMAIN d.store = DOMAIN store \ {id}
                 /\ g.err = IF fail THEN InternalError
                            ELSE IF id \notin DOMAIN store THEN NotFoundError
                            ELSE "nil"
                 /\ g.err = "nil" => g.user = store[id]
                 /\ g.err # "nil" => g.user = NilUser
        /\ \A e \in {E1, E2} :
              LET g == GetByEmail(store, e, fail)
              IN /\ g.err = IF fail THEN InternalError
                            ELSE IF \A i \in DOMAIN store : store[i].Email # e
                            THEN NotFoundError
                            ELSE "nil"
                 /\ g.err = "nil" => g.user \in {store[i] : i \in DOMAIN store}
                 /\ g.err # "nil" => g.user = NilUser

\* a table of two users on which an Update call was refused for uniqueness
\* and returned Conflict
C16_Witness ==
    \E w \in Workers :
        /\ Cardinality(DOMAIN store) = 2
        /\ pc[w] = "done" /\ req[w].op = "UpdateUser"
        /\ calls[w] = <<"GetByID", "GetByEmail", "Update">>
        /\ ~port[w].failed
        /\ port[w].err = ConflictError
        /\ Refused([ID |-> req[w].id, Email |-> req[w].email], FALSE)

\* worker w made a Storage Port call in this step
PortCalled(w) == calls'[w] # calls[w] /\ calls'[w] # <<>>

\* the GetByEmail call of worker w in this step found the e-mail free
EmailFree(w) ==
    calls'[w][Len(calls'[w])] = "GetByEmail" /\ port'[w].err = NotFoundError

\* C17: whenever a Storage Port call of CreateUser, GetUser, UpdateUser,
\* DeleteUser or ListUsers returns an error, other than the NotFound by which
\* GetByEmail reports that the e-mail is free, the operation ends at once and
\* returns that error, of the same kind, and no result.
C17_PortErrorReturned ==
    [][ \A w \in Workers :
          ( PortCalled(w) /\ port'[w].err # "nil" /\ ~EmailFree(w) )
          => /\ pc'[w] = "done"
             /\ res'[w] = Fail(port'[w].err) ]_vars

\* a CreateUser whose GetByEmail call returned Internal, and which returned
\* Internal
C17_Witness ==
    \E w \in Workers :
        /\ pc[w] = "done" /\ req[w].op = "CreateUser"
        /\ calls[w] = <<"GetByEmail">>
        /\ port[w].err = InternalError
        /\ res[w] = Fail(InternalError)

\* C18: every use-case operation ends either with a result and no error, or
\* with no result and an error whose kind is one of Validation, NotFound,
\* Conflict, Internal; never with a result beside an error.  (DeleteUser has
\* no result: it ends with no error or with an error.)
C18_ResultOrError ==
    \A w \in Workers :
        pc[w] = "done"
        => \/ /\ res[w].err = "nil"
              /\ req[w].op # "DeleteUser" => res[w].resp # NilResp
              /\ req[w].op = "DeleteUser" => res[w].resp = NilResp
           \/ /\ res[w].err \in {ValidationError, NotFoundError, ConflictError, InternalError}
              /\ res[w].resp = NilResp

\* a CreateUser that found the user holding the e-mail and returned Conflict
\* with no result
C18_Witness ==
    \E w \in Workers :
        /\ pc[w] = "done" /\ req[w].op = "CreateUser"
        /\ calls[w] = <<"GetByEmail">>
        /\ port[w].err = "nil"
        /\ \E i \in DOMAIN store : store[i].Email = req[w].email
        /\ res[w].err = ConflictError
        /\ res[w].resp = NilResp

\* C19: a Storage Port call made with a context that is already done does not
\* reach the store, leaves the table unchanged and returns Internal; a
\* use-case operation invoked with such a context changes nothing and, on
\* valid input, fails with Internal at its first storage call.
C19_DoneContextInternal ==
    [][ \A w \in Workers :
          /\ ( PortCalled(w) /\ req'[w].ctx = Cancelled )
             => /\ port'[w].failed
                /\ port'[w].err = InternalError
                /\ port'[w].users = <<>>
                /\ Len(calls'[w]) = 1
                /\ store' = store
                /\ pc'[w] = "done"
                /\ res'[w] = Fail(InternalError)
          /\ ( pc'[w] # pc[w] /\ req'[w].ctx = Cancelled /\ ~PortCalled(w) )
             => /\ req'[w].op = "CreateUser"
                /\ store' = store
                /\ IF validateUserInput(req'[w].name, req'[w].email) = "nil"
                   THEN pc'[w] = "c_getByEmail"
                   ELSE pc'[w] = "done" /\ res'[w] = Fail(ValidationError) ]_vars

\* an UpdateUser of a stored user, with a name and a free e-mail, that was
\* invoked with a done context and failed with Internal at GetByID
C19_Witness ==
    \E w \in Workers :
        /\ pc[w] = "done" /\ req[w].op = "UpdateUser" /\ req[w].ctx = Cancelled
        /\ req[w].id \in DOMAIN store
        /\ req[w].name = "n2" /\ req[w].email = E2
        /\ \A i \in DOMAIN store : store[i].Email # E2 /\ store[i].Name # "n2"
        /\ calls[w] = <<"GetByID">>
        /\ res[w] = Fail(InternalError)

\* the kind of an error: the one of the four kinds that its Is...Error
\* predicate reports, "none" when none does
Kind(err) ==
    IF IsValidationError(DomainType(err)) THEN ValidationError
    ELSE IF IsNotFoundError(DomainType(err)) THEN NotFoundError
    ELSE IF IsConflictError(DomainType(err)) THEN ConflictError
    ELSE IF IsInternalError(DomainType(err)) THEN InternalError
    ELSE "none"

\* C20: the status that handleError writes depends on the kind of the error
\* alone: 400 for Validation, 404 for NotFound, 409 for Conflict, 500 for
\* Internal, and any two errors of the same kind, or both of no kind, get the
\* same status whatever value or message they are.
C20_StatusByKindAlone ==
    hStatus # 0
    => /\ Kind(hErr) = ValidationError => hStatus = 400
       /\ Kind(hErr) = NotFoundError => hStatus = 404
       /\ Kind(hErr) = ConflictError => hStatus = 409
       /\ Kind(hErr) = InternalError => hStatus = 500
       /\ \A e \in HandlerErrors : Kind(e) = Kind(hErr) => handleError(e) = hStatus

\* C21: an UpdateUser of a stored user with both name and e-mail empty
\* succeeds (the store not failing) and leaves the stored name, e-mail and
\* updated_at of that user as they were immediately before its Update call.
C21_EmptyUpdateKeepsRecord ==
    [][ \A w \in Workers :
          ( /\ Step(w, "u_update")
            /\ req[w].name = "" /\ req[w].email = Empty
            /\ req[w].id \in DOMAIN store
            /\ StoreWorked(w) )
          => /\ res'[w].err = "nil"
             /\ store'[req[w].id].Name = store[req[w].id].Name
             /\ store'[req[w].id].Email = store[req[w].id].Email
             /\ store'[req[w].id].UpdatedAt = store[req[w].id].UpdatedAt ]_vars

\* C22: as long as a user is stored, its identifier and its created_at never
\* change: no step of any operation alters them, and every record is stored
\* under its own identifier.
C22_IdentityKept ==
    [][ /\ \A i \in DOMAIN store \cap DOMAIN store' :
             /\ store'[i].ID = store[i].ID
             /\ store'[i].CreatedAt = store[i].CreatedAt
        /\ \A i \in DOMAIN store' : store'[i].ID = i ]_vars

\* the seeded user, created at time 0, after an UpdateUser at a later time
\* has replaced both its name and its e-mail
C22_Witness ==
    \E w \in Workers :
        /\ pc[w] = "done" /\ req[w].op = "UpdateUser" /\ req[w].id = 1
        /\ req[w].name = "n2" /\ req[w].email = E2
        /\ res[w].err = "nil"
        /\ 1 \in DOMAIN store
        /\ store[1].Name = "n2" /\ store[1].Email = E2
        /\ store[1].UpdatedAt = 1 /\ store[1].CreatedAt = 0 /\ store[1].ID = 1

\* CreateUser without the GetByEmail pre-check: the entity that NewUser built
\* goes straight to Create, on a store that does not fail
WithoutPrecheck(st, u) == Create(st, u, FALSE)

\* C23: with a store that does not fail, every CreateUser call ends exactly as
\* the same call without the pre-check would end if its Create were issued at
\* that moment: the same outcome kind (success or Conflict) and the same
\* table afterwards; a pre-check that lets the call continue changes nothing.
\* So every schedule with the pre-check is matched, step for step, by the
\* schedule without it in which each Create takes the place of the call's
\* last storage call, and a schedule without the pre-check is matched by the
\* one in which each pre-check directly precedes its Create.
C23_PrecheckRedundant ==
    [][ \A w \in Workers :
          ( /\ Step(w, "c_getByEmail") \/ Step(w, "c_create")
            /\ StoreWorked(w) )
          => IF pc'[w] = "done"
             THEN LET c == WithoutPrecheck(store, user[w])
                  IN /\ res'[w].err = c.err
                     /\ res'[w].err \in {"nil", ConflictError}
                     /\ store' = c.store
                     /\ {store'[i].Email : i \in DOMAIN store'}
                          = {c.store[i].Email : i \in DOMAIN c.store}
             ELSE store' = store ]_vars

\* two CreateUser calls with the same e-mail: the first has succeeded, the
\* second was refused by the pre-check alone
C23_Witness ==
    /\ pc[1] = "done" /\ pc[2] = "done"
    /\ req[1].op = "CreateUser" /\ req[2].op = "CreateUser"
    /\ req[1].email = E1 /\ req[2].email = E1
    /\ res[1].err = "nil" /\ res[2].err = ConflictError
    /\ calls[1] = <<"GetByEmail", "Create">>
    /\ calls[2] = <<"GetByEmail">>
    /\ {store[i].Email : i \in DOMAIN store} = {E1}

\* C24: an UpdateUser whose e-mail is non-empty and malformed never issues
\* GetByEmail or Update, and when its target is stored (the GetByID not
\* failing) it ends at once with Validation.
C24_MalformedEmailBeforeLookup ==
    [][ \A w \in Workers :
          ( /\ req'[w].op = "UpdateUser"
            /\ req'[w].email # Empty /\ ~isValidEmail(req'[w].email) )
          => /\ PortCalled(w) => calls'[w][Len(calls'[w])] = "GetByID"
             /\ ( Begun(w) /\ StoreWorked(w) /\ req'[w].id \in DOMAIN store )
                => pc'[w] = "done" /\ res'[w].err = ValidationError ]_vars

\* the Storage Port method that worker w calls in this step
LastCall(w) == calls'[w][Len(calls'[w])]

\* C25: in CreateUser, Create is called only after GetByEmail has returned
\* NotFound.  A GetByEmail that returns a user ends the call with Conflict, a
\* GetByEmail that fails with another kind ends it with that error; in both
\* cases Create is not called, and the pre-check never changes the table.
C25_CreateOnlyAfterNotFound ==
    [][ \A w \in Workers :
          /\ Step(w, "c_getByEmail")
                => /\ store' = store
                   /\ port'[w].err = "nil"
                        => pc'[w] = "done" /\ res'[w] = Fail(ConflictError)
                   /\ port'[w].err \notin {"nil", NotFoundError}
                        => pc'[w] = "done" /\ res'[w] = Fail(port'[w].err)
                   /\ port'[w].err = NotFoundError => pc'[w] = "c_create"
                   /\ pc'[w] = "done" => calls'[w] = <<"GetByEmail">>
          /\ ( PortCalled(w) /\ LastCall(w) = "Create" )
                => /\ calls[w] = <<"GetByEmail">>
                   /\ port[w].err = NotFoundError ]_vars

\* a CreateUser whose e-mail is held by a stored user: the pre-check returned
\* that user, the call ended with Conflict and Create was not called
C25_Witness ==
    \E w \in Workers :
        /\ pc[w] = "done" /\ req[w].op = "CreateUser" /\ req[w].email = E2
        /\ calls[w] = <<"GetByEmail">>
        /\ port[w].err = "nil" /\ ~port[w].failed
        /\ res[w] = Fail(ConflictError)
        /\ Cardinality(EmailRows(E2)) = 1
        /\ nextID = Cardinality(DOMAIN store) + 2

\* the Storage Port methods that write
Mutating == {"Create", "Update", "Delete"}

\* C26: within one use-case operation every Storage Port method is called at
\* most once and at most one of the calls is a create, update or delete; a
\* further call is made only after a call that returned no error or after a
\* GetByEmail that returned NotFound, and a call whose error the operation
\* returns is its last call: nothing is retried.
C26_NoRepeatNoRetry ==
    [][ \A w \in Workers :
          PortCalled(w)
          => /\ \A j \in DOMAIN calls'[w], k \in DOMAIN calls'[w] :
                   calls'[w][j] = calls'[w][k] => j = k
             /\ Cardinality({k \in DOMAIN calls'[w] : calls'[w][k] \in Mutating}) <= 1
             /\ res[w].err = "pending"
             /\ Len(calls'[w]) > 1
                  => \/ port[w].err = "nil"
                     \/ /\ port[w].err = NotFoundError
                        /\ calls[w][Len(calls[w])] = "GetByEmail"
             /\ res'[w].err \notin {"pending", "nil"} => pc'[w] = "done" ]_vars

\* an UpdateUser that has made its three calls, the last of which failed in
\* the store, and has returned that failure
C26_Witness ==
    \E w \in Workers :
        /\ pc[w] = "done" /\ req[w].op = "UpdateUser"
        /\ calls[w] = <<"GetByID", "GetByEmail", "Update">>
        /\ port[w].failed
        /\ res[w] = Fail(InternalError)

\* the kinds whose classification predicate is true of the error err
KindsOf(err) ==
    LET t == DomainType(err)
    IN {k \in {ValidationError, NotFoundError, ConflictError, InternalError} :
           \/ k = ValidationError /\ IsValidationError(t)
           \/ k = NotFoundError /\ IsNotFoundError(t)
           \/ k = ConflictError /\ IsConflictError(t)
           \/ k = InternalError /\ IsInternalError(t)}

\* C27: of every error at most one of IsValidationError, IsNotFoundError,
\* IsConflictError, IsInternalError is true; of an error built by the
\* constructor of a kind exactly the predicate of that kind is true, whatever
\* its message and whatever it wraps; of an error with no domain error on its
\* chain all four are false.
C27_KindsExclusive ==
    /\ Cardinality(KindsOf(hErr)) <= 1
    /\ \A k \in {ValidationError, NotFoundError, ConflictError, InternalError} :
          ( hErr.types # <<>> /\ hErr.types[1] = k ) => KindsOf(hErr) = {k}
    /\ hErr.types = <<>> => KindsOf(hErr) = {}

\* an Internal error that wraps a NotFound error has been classified
C27_Witness ==
    /\ hStatus = StatusInternalServerError
    /\ hErr.types = <<InternalError, NotFoundError>>
    /\ hErr.msg = "m2"
    /\ KindsOf(hErr) = {InternalError}

\* worker w moves in this step
Moves(w) == pc'[w] # pc[w] /\ pc[w] # "done"

\* C28: an operation that returns an error has left the table as it was:
\* the step in which it returns the error changes nothing, and none of its
\* earlier steps did; only the step in which an operation returns without
\* an error may create, modify or remove a record.
C28_FailedLeavesStore ==
    [][ \A w \in Workers :
          ( Moves(w) /\ ~(pc'[w] = "done" /\ res'[w].err = "nil") )
          => store' = store ]_vars

\* an UpdateUser that changes name and e-mail of a stored user and whose
\* Update call failed in the store: the record is as it was created
C28_Witness ==
    \E w \in Workers :
        /\ pc[w] = "done" /\ req[w].op = "UpdateUser" /\ req[w].id = 1
        /\ req[w].name = "n2" /\ req[w].email = E2
        /\ calls[w] = <<"GetByID", "GetByEmail", "Update">>
        /\ res[w].err = InternalError
        /\ store = Seeded

\* C29: an UpdateUser that supplies only a name never ends with Conflict,
\* whatever the other operations do meanwhile; it ends with success, NotFound
\* or Internal.
C29_NameOnlyNoConflict ==
    \A w \in Workers :
        ( /\ pc[w] = "done" /\ req[w].op = "UpdateUser"
          /\ req[w].name # "" /\ req[w].email = Empty )
        => res[w].err \in {"nil", NotFoundError, InternalError}

\* C30: a successful DeleteUser(id) frees the e-mail of the deleted user:
\* GetByEmail for it returns NotFound on the table it leaves; and as long as
\* no stored user holds an e-mail, the store not failing, the pre-check of a
\* CreateUser or UpdateUser with that e-mail lets the call continue, a Create
\* with it succeeds and an Update of a stored user to it succeeds.
C30_DeleteFreesEmail ==
    [][ \A w \in Workers :
          /\ ( Begun(w) /\ req'[w].op = "DeleteUser" /\ res'[w].err = "nil" )
                => /\ req'[w].id \in DOMAIN store
                   /\ req'[w].id \notin DOMAIN store'
                   /\ GetByEmail(store', store[req'[w].id].Email, FALSE).err
                        = NotFoundError
          /\ ( StoreWorked(w) /\ req[w].email # Empty /\ EmailRows(req[w].email) = {} )
                => /\ Step(w, "c_getByEmail") => pc'[w] = "c_create"
                   /\ Step(w, "c_create")
                        => /\ res'[w].err = "nil"
                           /\ EmailRows(req[w].email)' = {user[w].ID}
                   /\ ( Step(w, "u_getByEmail") /\ isValidEmail(req[w].email) )
                        => pc'[w] = "u_update"
                   /\ ( Step(w, "u_update") /\ req[w].id \in DOMAIN store )
                        => /\ res'[w].err = "nil"
                           /\ EmailRows(req[w].email)' = {req[w].id} ]_vars

\* worker 1 still holds the record of user 1 that it read, with the seeded
\* e-mail; user 1 has been deleted since, and a CreateUser with that e-mail
\* has succeeded as user 2
C30_Witness ==
    /\ pc[1] = "u_update" /\ user[1].ID = 1 /\ user[1].Email = E1
    /\ 1 \notin DOMAIN store
    /\ pc[2] = "done" /\ req[2].op = "CreateUser" /\ req[2].email = E1
    /\ res[2].err = "nil"
    /\ EmailRows(E1) = {2}

====
